---------------------------- MODULE Spec2Model ----------------------------
(***************************************************************************)
(* crate-docs: an interactive lookup of a crate's rustdoc listings.        *)
(*                                                                         *)
(*   src/src/content.rs  fetch_html / fetch_live_html (page source),       *)
(*                       gen_doc_listings (listing extractor)              *)
(*   src/src/main.rs     DocState (index and search), the command loops    *)
(*                                                                         *)
(* Rust strings are sequences of one-character strings, so that split,     *)
(* starts_with, ends_with and replace are computed and not assumed.        *)
(* Option/Result values are records with a tag field.                      *)
(*                                                                         *)
(*   SpecSearch   DocState::from and search_doc_listings on a drawn page   *)
(*   SpecExtract  gen_doc_listings on a drawn document and base location   *)
(*   SpecFetch    fetch_html on a drawn file system and network            *)
(*   Spec         the command loops, from main()                           *)
(***************************************************************************)
EXTENDS Naturals, Sequences, FiniteSets, TLC

VARIABLES
    \* DocState (main.rs): the page handed to DocState::from, the state built
    \* from it, the target of a search and what the search returned
    search_pc, search_page, search_state, search_target, search_result,
    \* gen_doc_listings (content.rs): the page and base_url it is called with
    \* and what it returned
    extract_pc, extract_page, extract_base, extract_result,
    \* fetch_html (content.rs): the crate and mode it is called with, the
    \* world it runs in and what it returned
    fetch_pc, fetch_crate, fetch_online, fetch_env, fetch_result,
    \* the command loops (main.rs)
    stack,      \* the call stack: main, process_crate_fetch_cmds and
                \* process_opened_crate_cmds frames, the running one last
    cwd,        \* env::current_dir()
    opened,     \* history: the page of the last DocPage::fetch that returned Ok
    searched,   \* history: the last search a doc command ran
    history     \* history: the last HistoryLen inputs read and fetches made

searchVars == <<search_pc, search_page, search_state, search_target, search_result>>
extractVars == <<extract_pc, extract_page, extract_base, extract_result>>

fetchVars == <<fetch_pc, fetch_crate, fetch_online, fetch_env, fetch_result>>

replVars == <<stack, cwd, opened, searched, history>>

vars == <<searchVars, extractVars, fetchVars, replVars>>

---------------------------------------------------------------------------
\* Bounds of the model

\* longest entry name / search target drawn, in characters
MaxNameLen == 2
\* most entries of a page whose index is searched
MaxEntries == 2
\* most anchors of one list container of a document
MaxAnchors == 2
\* most list containers of a document
MaxContainers == 2
\* deepest call stack of the command loops
MaxDepth == 5
\* the events the history keeps
HistoryLen == 3

---------------------------------------------------------------------------
\* Rust values

None == [tag |-> "None"]
Some(x) == [tag |-> "Some", val |-> x]
Ok(x) == [tag |-> "Ok", val |-> x]
Err(e) == [tag |-> "Err", err |-> e]

\* enum ContentError
ContentError == {"DoesNotExist", "LoadFailure", "InvalidPage"}

\* enum DocType
DocType ==
    {"Module", "Struct", "Type", "Trait", "Enum", "Function", "Constant", "Other"}

\* struct DocListing
DocListing(name, url) == [name |-> name, url |-> url]

\* struct DocTypeListing
DocTypeListing(doc_type, docs) == [doc_type |-> doc_type, docs |-> docs]

---------------------------------------------------------------------------
\* String literals of the source

\* "all.html" (content.rs 181, 225, 261)
IndexFile == <<"a", "l", "l", ".", "h", "t", "m", "l">>
\* "pure" (content.rs 146)
PurePrefix == <<"p", "u", "r", "e">>
\* "/target/doc/" of "{}/target/doc/{}/all.html" (content.rs 261)
TargetDoc == <<"/", "t", "a", "r", "g", "e", "t", "/", "d", "o", "c", "/">>
\* "https://docs.rs/" of "https://docs.rs/{}" (content.rs 216)
DocsRs == <<"h", "t", "t", "p", "s", ":", "/", "/", "d", "o", "c", "s", ".", "r", "s", "/">>
\* the class names of the match in gen_doc_listings (content.rs 151-157)
s_modules == <<"m", "o", "d", "u", "l", "e", "s">>
s_structs == <<"s", "t", "r", "u", "c", "t", "s">>
s_typedefs == <<"t", "y", "p", "e", "d", "e", "f", "s">>
s_traits == <<"t", "r", "a", "i", "t", "s">>
s_enums == <<"e", "n", "u", "m", "s">>
s_functions == <<"f", "u", "n", "c", "t", "i", "o", "n", "s">>
s_constants == <<"c", "o", "n", "s", "t", "a", "n", "t", "s">>

---------------------------------------------------------------------------
\* str operations

\* str::ends_with, as a mutant: the prefix is compared instead of the suffix
ends_with_prefix(s, t) ==
    /\ Len(t) <= Len(s)
    /\ SubSeq(s, 1, Len(t)) = t

\* str::ends_with
ends_with(s, t) ==
    /\ Len(t) <= Len(s)
    /\ SubSeq(s, Len(s) - Len(t) + 1, Len(s)) = t

\* str::starts_with
starts_with(s, t) ==
    /\ Len(t) <= Len(s)
    /\ SubSeq(s, 1, Len(t)) = t

RECURSIVE split_from(_, _, _, _)
\* the fields of s between occurrences of the character sep; cur is the field
\* being read and acc the fields already closed
split_from(s, sep, cur, acc) ==
    IF s = <<>> THEN Append(acc, cur)
    ELSE IF Head(s) = sep THEN split_from(Tail(s), sep, <<>>, Append(acc, cur))
    ELSE split_from(Tail(s), sep, Append(cur, Head(s)), acc)

\* str::split(" ").collect(): the empty string splits into one empty field
split(s, sep) == split_from(s, sep, <<>>, <<>>)

RECURSIVE replace(_, _, _)
\* str::replace: every non-overlapping occurrence of from (not empty), left
\* to right, becomes to; the text put in is not searched again
replace(s, from, to) ==
    IF Len(s) < Len(from) THEN s
    ELSE IF starts_with(s, from)
         THEN to \o replace(SubSeq(s, Len(from) + 1, Len(s)), from, to)
    ELSE <<Head(s)>> \o replace(Tail(s), from, to)

---------------------------------------------------------------------------
\* url::Url, as far as gen_doc_listings uses it (content.rs 167-183)

Letters ==
    {"a", "b", "c", "d", "e", "f", "g", "h", "i", "j", "k", "l", "m",
     "n", "o", "p", "q", "r", "s", "t", "u", "v", "w", "x", "y", "z",
     "A", "B", "C", "D", "E", "F", "G", "H", "I", "J", "K", "L", "M",
     "N", "O", "P", "Q", "R", "S", "T", "U", "V", "W", "X", "Y", "Z"}

SchemeChars ==
    Letters \cup {"0", "1", "2", "3", "4", "5", "6", "7", "8", "9", "+", "-", "."}

\* the position of the ":" that ends a scheme (a letter, then scheme
\* characters), or 0 when the string starts with no scheme
SchemeEnd(s) ==
    LET ends == {i \in 2..Len(s) :
                    /\ s[i] = ":"
                    /\ s[1] \in Letters
                    /\ \A k \in 2..(i - 1) : s[k] \in SchemeChars}
    IN  IF ends = {} THEN 0 ELSE CHOOSE i \in ends : \A j \in ends : i <= j

RECURSIVE strip_slashes(_)
strip_slashes(s) ==
    IF s # <<>> /\ Head(s) \in {"/", "\\"} THEN strip_slashes(Tail(s)) ELSE s

\* Url::parse(base_url): a string without a scheme is RelativeUrlWithoutBase;
\* an http(s) url needs a host; any other scheme parses, and cannot be a base
\* unless its path starts with "/".  The strings drawn below serialize as
\* they are written.
UrlParse(s) ==
    LET e == SchemeEnd(s)
        scheme == SubSeq(s, 1, e - 1)
        rest == SubSeq(s, e + 1, Len(s))
    IN  IF e = 0 THEN Err("RelativeUrlWithoutBase")
        ELSE IF scheme \in {<<"h", "t", "t", "p">>, <<"h", "t", "t", "p", "s">>}
             THEN IF strip_slashes(rest) = <<>> \/ Head(strip_slashes(rest)) \in {"?", "#", ":"}
                  THEN Err("EmptyHost")
                  ELSE Ok([cannot_be_a_base |-> FALSE, serialization |-> s])
        ELSE Ok([cannot_be_a_base |-> (rest = <<>> \/ Head(rest) # "/"),
                 serialization |-> s])

\* the url up to and with its last "/"
UpToLastSlash(s) ==
    LET slashes == {i \in 1..Len(s) : s[i] = "/"}
    IN  IF slashes = {} THEN <<>>
        ELSE SubSeq(s, 1, CHOOSE i \in slashes : \A j \in slashes : j <= i)

\* Url::join(u), for u an absolute url or a plain file name (no "/", "?", "#"
\* or dot segment, not empty): a file name replaces the last path segment
UrlJoin(base, u) ==
    IF SchemeEnd(u) # 0
    THEN LET r == UrlParse(u)
         IN  IF r.tag = "Ok" THEN Ok(r.val.serialization) ELSE r
    ELSE IF base.cannot_be_a_base THEN Err("RelativeUrlWithCannotBeABaseBase")
    ELSE Ok(UpToLastSlash(base.serialization) \o u)

---------------------------------------------------------------------------
\* gen_doc_listings (content.rs)

\* A parsed page is its ul elements in document order; of each the code reads
\* the class attribute and the anchors below it, in document order, with
\* their text and href.
Panic == [tag |-> "Panic"]
Continue == [tag |-> "Continue"]

\* let classes = match c.value().attr("class") { ... }
classes_of(c) ==
    IF c.class = None THEN <<>> ELSE split(c.class.val, " ")

\* if classes.len() == 0 || classes[0].starts_with("pure") { continue }
is_skipped(classes) ==
    Len(classes) = 0 \/ starts_with(classes[1], PurePrefix)

\* the match on classes[0], as a mutant: the typedefs arm is missing
dtype_of_no_typedefs(class) ==
    CASE class = s_modules -> "Module"
      [] class = s_structs -> "Struct"
      [] class = s_traits -> "Trait"
      [] class = s_enums -> "Enum"
      [] class = s_functions -> "Function"
      [] class = s_constants -> "Constant"
      [] OTHER -> "Other"

\* let dtype = match classes[0] { ... }
dtype_of(class) ==
    CASE class = s_modules -> "Module"
      [] class = s_structs -> "Struct"
      [] class = s_typedefs -> "Type"
      [] class = s_traits -> "Trait"
      [] class = s_enums -> "Enum"
      [] class = s_functions -> "Function"
      [] class = s_constants -> "Constant"
      [] OTHER -> "Other"

\* let url = match entry.value().attr("href") { ... }: the url of the entry,
\* Continue where the code skips the anchor, Panic where unwrap() fails
listing_url(href, base_url) ==
    IF href = None THEN Continue
    ELSE LET parsed == UrlParse(base_url)
         IN  IF parsed.tag = "Ok"
             THEN LET joined == UrlJoin(parsed.val, href.val)
                  IN  IF joined.tag = "Ok" THEN Some(joined.val) ELSE Panic
             ELSE IF parsed.err = "RelativeUrlWithoutBase"
                  THEN Some(replace(base_url, IndexFile, href.val))
             ELSE Continue

\* listings.push, as a mutant: the listing is put in front
push_listing_front(listings, l) == <<l>> \o listings

\* listings.push(DocListing { name, url })
push_listing(listings, l) == Append(listings, l)

RECURSIVE collect_listings(_, _, _)
\* for entry in c.select(&entry_selector) { ... }
collect_listings(anchors, base_url, listings) ==
    IF anchors = <<>> THEN Ok(listings)
    ELSE LET entry == Head(anchors)
             url == listing_url(entry.href, base_url)
         IN  CASE url = Panic -> Panic
               [] url = Continue -> collect_listings(Tail(anchors), base_url, listings)
               [] OTHER ->
                    collect_listings(Tail(anchors), base_url,
                        push_listing(listings, DocListing(entry.text, url.val)))

\* the push of a block, as a mutant: an empty block is pushed too
push_block_always(docs, dtype, listings) ==
    Append(docs, DocTypeListing(dtype, listings))

\* if listings.len() > 0 { docs.push(DocTypeListing { ... }) }
push_block(docs, dtype, listings) ==
    IF Len(listings) > 0 THEN Append(docs, DocTypeListing(dtype, listings))
    ELSE docs

RECURSIVE collect_docs(_, _, _)
\* for c in html.select(&selector) { ... }
collect_docs(uls, base_url, docs) ==
    IF uls = <<>> THEN Ok(docs)
    ELSE LET c == Head(uls)
             classes == classes_of(c)
         IN  IF is_skipped(classes) THEN collect_docs(Tail(uls), base_url, docs)
             ELSE LET listings == collect_listings(c.anchors, base_url, <<>>)
                  IN  IF listings = Panic THEN Panic
                      ELSE collect_docs(Tail(uls), base_url,
                               push_block(docs, dtype_of(classes[1]), listings.val))

\* pub fn gen_doc_listings(page: &PageType, base_url: &str)
gen_doc_listings(page, base_url) ==
    IF page.page_type = "All" THEN collect_docs(page.uls, base_url, <<>>)
    ELSE Err("InvalidPage")

---------------------------------------------------------------------------
\* fetch_html and fetch_live_html (content.rs)

\* The world a fetch runs in: the working directory, the file at the index
\* path, and the responses to the two requests.
\*   file   [kind |-> "missing"]                     no such file
\*          [kind |-> "denied"]                      present, File::open fails
\*          [kind |-> "unreadable"]                  opened, read_to_string fails
\*          [kind |-> "text", content |-> uls]       read; content is the
\*                                                   document the text parses to
\*   first  Err(..) | Ok([url |-> final url of the response])
\*   second Err(..) | Ok([status |-> n, body |-> Err(..) | Ok(uls)])

\* reqwest::StatusCode::OK
StatusOK == 200

\* PageType::All(Html::parse_document(..))
PageAll(uls) == [page_type |-> "All", uls |-> uls]

\* File::open(index_path)
FileOpen(file) ==
    IF file.kind \in {"missing", "denied"} THEN Err(file.kind) ELSE Ok(file)

\* f.read_to_string(&mut content)
ReadToString(f) ==
    IF f.kind = "unreadable" THEN Err("read") ELSE Ok(f.content)

\* format!("{}/target/doc/{}/all.html", path, crate_name)
index_path(path, crate_name) == path \o TargetDoc \o crate_name \o <<"/">> \o IndexFile

\* the match on r.status(), as a mutant: every 2xx status is taken as a page
status_is_page_2xx(status) == status \in 200..299

\* match r.status() { reqwest::StatusCode::OK => .., _ => .. }
status_is_page(status) == status = StatusOK

\* pub fn fetch_live_html(crate_name: &str)
fetch_live_html(crate_name, env) ==
    LET resp == env.first
    IN  IF resp.tag = "Err" THEN Err("LoadFailure")
        ELSE LET url == resp.val.url \o IndexFile
                 resp2 == env.second
             IN  IF resp2.tag = "Err" THEN Err("LoadFailure")
                 ELSE IF status_is_page(resp2.val.status)
                      THEN IF resp2.val.body.tag = "Err" THEN Err("LoadFailure")
                           ELSE Ok(<<PageAll(resp2.val.body.val), url>>)
                 ELSE Err("DoesNotExist")

\* pub fn fetch_html(crate_name: &str, online: bool)
fetch_html(crate_name, online, env) ==
    IF online THEN fetch_live_html(crate_name, env)
    ELSE LET path == index_path(env.cwd, crate_name)
             file == FileOpen(env.file)
         IN  IF file.tag = "Err" THEN Err("DoesNotExist")
             ELSE LET content == ReadToString(file.val)
                  IN  IF content.tag = "Err" THEN Err("LoadFailure")
                      ELSE Ok(<<PageAll(content.val), path>>)

\* DocPage::fetch(online, crate_name)
DocPageFetch(online, crate_name, env) ==
    LET page == fetch_html(crate_name, online, env)
    IN  IF page.tag = "Err" THEN page
        ELSE LET docs == gen_doc_listings(page.val[1], page.val[2])
             IN  IF docs.tag # "Ok" THEN docs
                 ELSE Ok([page_type |-> page.val[1], doc_blocks |-> docs.val])

---------------------------------------------------------------------------
\* DocState (main.rs)

RECURSIVE extend_all(_, _)
\* the loop of DocState::from: listings.extend(block.docs) for each block
extend_all(listings, blocks) ==
    IF blocks = <<>> THEN listings
    ELSE extend_all(listings \o Head(blocks).docs, Tail(blocks))

\* DocState::from, as a mutant: listings is assigned each block's docs
\* instead of being extended by them, so only the last block is indexed
DocStateFrom_last_block(p) ==
    [page |-> p,
     available_docs |->
        IF p.doc_blocks = <<>> THEN <<>> ELSE p.doc_blocks[Len(p.doc_blocks)].docs]

\* impl From<DocPage> for DocState
DocStateFrom(p) ==
    [page |-> p, available_docs |-> extend_all(<<>>, p.doc_blocks)]

RECURSIVE scan_exact(_, _)
\* first loop of search_doc_listings: the first doc whose name == target
scan_exact(docs, target) ==
    IF docs = <<>> THEN None
    ELSE IF Head(docs).name = target THEN Some(Head(docs))
    ELSE scan_exact(Tail(docs), target)

RECURSIVE scan_suffix(_, _)
\* second loop of search_doc_listings: the first doc whose name ends with target
scan_suffix(docs, target) ==
    IF docs = <<>> THEN None
    ELSE IF ends_with(Head(docs).name, target) THEN Some(Head(docs))
    ELSE scan_suffix(Tail(docs), target)

RECURSIVE scan_either(_, _)
\* a single combined scan: the first doc that matches by either rule
scan_either(docs, target) ==
    IF docs = <<>> THEN None
    ELSE IF Head(docs).name = target \/ ends_with(Head(docs).name, target)
         THEN Some(Head(docs))
    ELSE scan_either(Tail(docs), target)

\* search_doc_listings, as a mutant: one combined scan instead of two passes
search_doc_listings_one_pass(available_docs, target) ==
    scan_either(available_docs, target)

\* DocState::search_doc_listings
search_doc_listings(available_docs, target) ==
    LET exact == scan_exact(available_docs, target)
    IN  IF exact # None THEN exact
        ELSE scan_suffix(available_docs, target)

---------------------------------------------------------------------------
\* Commands (main.rs)

\* impl From<String> for Cmd
CmdFrom(s) ==
    LET cmds == split(s, " ")
    IN  IF cmds = << <<>> >> THEN [tag |-> "Empty"]
        ELSE CASE cmds[1] = <<"l", "u", "p">> ->
                    IF Len(cmds) # 2 THEN [tag |-> "InvalidUsage"]
                    ELSE [tag |-> "Lookup", val |-> cmds[2]]
               [] cmds[1] = <<"r", "c">> -> [tag |-> "RefreshCache"]
               [] cmds[1] = <<"d", "o", "c">> ->
                    IF Len(cmds) # 2 THEN [tag |-> "InvalidUsage"]
                    ELSE [tag |-> "Doc", val |-> cmds[2]]
               [] OTHER -> [tag |-> "Unknown", val |-> cmds[1]]

\* impl From<&str> for Allow
AllowFrom(s) ==
    IF s \in {<<"y">>, <<"Y">>, <<"y", "e", "s">>, <<"Y", "e", "s">>, <<"Y", "E", "S">>} THEN "Yes" ELSE "No"

\* the frames of the call stack
MainFrame(pc) == [fn |-> "main", pc |-> pc]
FetchFrame(online, name, pc) ==
    [fn |-> "fetch", online |-> online, name |-> name, pc |-> pc]
OpenedFrame(state, name, pc) ==
    [fn |-> "opened", state |-> state, name |-> name, pc |-> pc]

---------------------------------------------------------------------------
\* Inputs of the search specification

Alphabet == {"a", "b"}

\* every string of at most MaxNameLen characters
Names == UNION {[1..n -> Alphabet] : n \in 0..MaxNameLen}

\* the kinds, in the order of the enum
DocTypeSeq ==
    <<"Module", "Struct", "Type", "Trait", "Enum", "Function", "Constant", "Other">>

\* a url that tells the entry at position i from every other entry
PositionUrl(i) == <<"/">> \o [k \in 1..i |-> "u"]

\* The page whose entries carry the names `flat`, cut into blocks after each
\* position of `cuts`: every block is non-empty, as gen_doc_listings builds them.
\* DocState reads only doc_blocks; the html of the page is left empty.
PageOf(flat, cuts) ==
    LET n == Len(flat)
        blockOf(i) == 1 + Cardinality({c \in cuts : c < i})
        lo(g) == CHOOSE i \in 1..n : blockOf(i) = g /\ (i = 1 \/ blockOf(i - 1) # g)
        hi(g) == CHOOSE i \in 1..n : blockOf(i) = g /\ (i = n \/ blockOf(i + 1) # g)
        nblocks == IF n = 0 THEN 0 ELSE Cardinality(cuts) + 1
    IN  [page_type |-> PageAll(<<>>),
         doc_blocks |->
            [g \in 1..nblocks |->
                DocTypeListing(DocTypeSeq[((g - 1) % 8) + 1],
                    [k \in 1..(hi(g) - lo(g) + 1) |->
                        DocListing(flat[lo(g) + k - 1], PositionUrl(lo(g) + k - 1))])]]

---------------------------------------------------------------------------
\* Inputs of the extraction and fetch specifications

\* class attributes: the seven known names, menu markers, and others
ClassAttrs ==
    {None, Some(<<>>),
     Some(s_modules), Some(s_structs), Some(s_typedefs), Some(s_traits),
     Some(s_enums), Some(s_functions), Some(s_constants),
     Some(<<"p", "u", "r", "e", "-", "m", "e", "n", "u", "-", "l", "i", "s", "t">>), Some(<<"p", "u", "r", "e">>), Some(<<"p", "u", "r", "e", "e", "s">>),
     Some(<<"S", "t", "r", "u", "c", "t", "s">>), Some(<<"m", "a", "c", "r", "o", "s">>), Some(<<"s", "t", "r", "u", "c", "t", "s", " ", "d", "o", "c", "b", "l", "o", "c", "k">>),
     Some(<<" ", "m", "o", "d", "u", "l", "e", "s">>), Some(<<"p", "u", "r", "e", "-", "m", "e", "n", "u", " ", "s", "t", "r", "u", "c", "t", "s">>), Some(<<"s", "t", "r", "u", "c", "t", "s", " ", "p", "u", "r", "e", "-", "m", "e", "n", "u">>)}

\* the class attributes of the documents of several containers
FewClassAttrs == {None, Some(s_structs)}

\* href attributes: none, file names, and an absolute url without a host
Hrefs == {None, Some(<<"s", "t", "r", "u", "c", "t", ".", "B", "a", "r", ".", "h", "t", "m", "l">>), Some(IndexFile), Some(<<"h", "t", "t", "p", "s", ":", "/", "/">>)}
FewHrefs == {None, Some(<<"f", "n", ".", "f", ".", "h", "t", "m", "l">>)}

\* the text of anchor j of container i: no two anchors of a document share it
AnchorText(i, j) == [k \in 1..i |-> "c"] \o [k \in 1..j |-> "a"]

\* the document whose container i has class shape[i][1] and one anchor for
\* each href of shape[i][2]
DocumentOf(shape) ==
    [i \in 1..Len(shape) |->
        [class |-> shape[i][1],
         anchors |-> [j \in 1..Len(shape[i][2]) |->
                        [text |-> AnchorText(i, j), href |-> shape[i][2][j]]]]]

SeqsUpTo(S, n) == UNION {[1..k -> S] : k \in 0..n}

\* the shapes of the documents of one container, of any class and href
OneContainerShapes ==
    {<<<<class, hrefs>>>> : class \in ClassAttrs, hrefs \in SeqsUpTo(Hrefs, MaxAnchors)}

\* the shapes of the documents of up to MaxContainers containers
FewContainerShapes ==
    SeqsUpTo(FewClassAttrs \X SeqsUpTo(FewHrefs, MaxAnchors), MaxContainers)

Cwds == {<<"/", "x">>, <<"C", ":", "\\", "x">>}
CrateNames == {<<"f", "o", "o">>, IndexFile}

\* the final url of the response to GET https://docs.rs/<crate_name>: the
\* versioned root it redirects to, or the url asked for
FinalUrls(crate_name) ==
    {DocsRs \o crate_name \o <<"/", "l", "a", "t", "e", "s", "t", "/">> \o crate_name \o <<"/">>,
     DocsRs \o crate_name}

\* the base locations fetch_html hands to gen_doc_listings, and a url
\* without a host, which Url::parse refuses with EmptyHost
BaseUrls ==
    {index_path(path, crate_name) : path \in Cwds, crate_name \in CrateNames}
    \cup {u \o IndexFile : u \in UNION {FinalUrls(c) : c \in CrateNames}}
    \cup {<<"h", "t", "t", "p", "s", ":", "/", "/">>}

\* the base locations the documents of several containers are read against
FewBaseUrls ==
    {index_path(<<"/", "x">>, <<"f", "o", "o">>),
     DocsRs \o <<"f", "o", "o", "/", "l", "a", "t", "e", "s", "t", "/", "f", "o", "o", "/">> \o IndexFile,
     <<"h", "t", "t", "p", "s", ":", "/", "/">>}

\* the documents a cache file or a response body holds
FetchDocs ==
    {DocumentOf(<<<<Some(s_structs), <<Some(<<"s", "t", "r", "u", "c", "t", ".", "B", "a", "r", ".", "h", "t", "m", "l">>)>>>>>>),
     DocumentOf(<<<<Some(s_structs), <<Some(<<"s", "t", "r", "u", "c", "t", ".", "B", "a", "r", ".", "h", "t", "m", "l">>)>>>>,
                  <<Some(s_functions), <<Some(<<"f", "n", ".", "f", ".", "h", "t", "m", "l">>), Some(<<"f", "n", ".", "f", ".", "h", "t", "m", "l">>)>>>>>>)}

Files ==
    {[kind |-> "missing"], [kind |-> "denied"], [kind |-> "unreadable"]}
    \cup {[kind |-> "text", content |-> d] : d \in FetchDocs}

FirstResponses(crate_name) ==
    {Err("transport")} \cup {Ok([url |-> u]) : u \in FinalUrls(crate_name)}

SecondResponses ==
    {Err("transport")}
    \cup {Ok([status |-> st, body |-> b]) :
            st \in {200, 204, 301, 404, 500},
            b \in {Err("body")} \cup {Ok(d) : d \in FetchDocs}}

FetchEnvs(crate_name) ==
    [cwd : Cwds, file : Files, first : FirstResponses(crate_name), second : SecondResponses]

---------------------------------------------------------------------------
\* The parts of the state a specification does not use stay idle

SearchIdle ==
    /\ search_pc = "idle"
    /\ search_page = None
    /\ search_state = None
    /\ search_target = <<>>
    /\ search_result = None

ExtractIdle ==
    /\ extract_pc = "idle"
    /\ extract_page = None
    /\ extract_base = <<>>
    /\ extract_result = None

FetchIdle ==
    /\ fetch_pc = "idle"
    /\ fetch_crate = <<>>
    /\ fetch_online = FALSE
    /\ fetch_env = None
    /\ fetch_result = None

ReplIdle ==
    /\ stack = <<>>
    /\ cwd = <<>>
    /\ opened = None
    /\ searched = None
    /\ history = <<>>

---------------------------------------------------------------------------
\* SpecSearch: a page is indexed by DocState::from, then searched once

SearchInit ==
    /\ search_pc = "page"
    /\ \E n \in 0..MaxEntries :
          \E flat \in [1..n -> Names], cuts \in SUBSET (1..(n - 1)) :
             search_page = PageOf(flat, cuts)
    /\ search_state = None
    /\ search_target \in Names
    /\ search_result = None
    /\ ExtractIdle /\ FetchIdle /\ ReplIdle

\* process_opened_crate_cmds: let state = DocState::from(p)
SearchBuild ==
    /\ search_pc = "page"
    /\ search_state' = Some(DocStateFrom(search_page))
    /\ search_pc' = "state"
    /\ UNCHANGED <<search_page, search_target, search_result>>
    /\ UNCHANGED <<extractVars, fetchVars, replVars>>

\* process_opened_crate_cmds, Cmd::Doc(s): state.search_doc_listings(&s)
SearchDoc ==
    /\ search_pc = "state"
    /\ search_result' =
          search_doc_listings(search_state.val.available_docs, search_target)
    /\ search_pc' = "searched"
    /\ UNCHANGED <<search_page, search_state, search_target>>
    /\ UNCHANGED <<extractVars, fetchVars, replVars>>

SearchNext == SearchBuild \/ SearchDoc

SpecSearch == SearchInit /\ [][SearchNext]_vars

---------------------------------------------------------------------------
\* SpecExtract: gen_doc_listings is applied to a page and a base location

ExtractInit ==
    /\ extract_pc = "page"
    /\ \/ \E shape \in OneContainerShapes, page_type \in {"All", "Index"} :
             /\ extract_page = [page_type |-> page_type, uls |-> DocumentOf(shape)]
             /\ extract_base \in BaseUrls
       \/ \E shape \in FewContainerShapes :
             /\ extract_page = PageAll(DocumentOf(shape))
             /\ extract_base \in FewBaseUrls
    /\ extract_result = None
    /\ SearchIdle /\ FetchIdle /\ ReplIdle

\* DocPage::fetch: let docs = gen_doc_listings(&p, &u)
ExtractGen ==
    /\ extract_pc = "page"
    /\ extract_result' = gen_doc_listings(extract_page, extract_base)
    /\ extract_pc' = "done"
    /\ UNCHANGED <<extract_page, extract_base>>
    /\ UNCHANGED <<searchVars, fetchVars, replVars>>

ExtractNext == ExtractGen

SpecExtract == ExtractInit /\ [][ExtractNext]_vars

---------------------------------------------------------------------------
\* SpecFetch: fetch_html is applied to a crate name in some world

FetchInit ==
    /\ fetch_pc = "call"
    /\ fetch_crate \in CrateNames
    /\ fetch_online \in BOOLEAN
    /\ fetch_env \in FetchEnvs(fetch_crate)
    /\ fetch_result = None
    /\ SearchIdle /\ ExtractIdle /\ ReplIdle

\* DocPage::fetch: let page = fetch_html(crate_name, online)
FetchHtml ==
    /\ fetch_pc = "call"
    /\ fetch_result' = fetch_html(fetch_crate, fetch_online, fetch_env)
    /\ fetch_pc' = "done"
    /\ UNCHANGED <<fetch_crate, fetch_online, fetch_env>>
    /\ UNCHANGED <<searchVars, extractVars, replVars>>

FetchNext == FetchHtml

SpecFetch == FetchInit /\ [][FetchNext]_vars

---------------------------------------------------------------------------
\* Spec: the command loops of main.rs, from main()

\* the lines the user types at a command prompt
CmdLines ==
    {<<>>, <<"r", "c">>, <<"h", "e", "l", "p">>, <<"l", "u", "p">>, <<"d", "o", "c">>, <<"l", "u", "p", " ", "f", "o", "o", " ", "b", "a", "r">>,
     <<"l", "u", "p", " ", "f", "o", "o">>, <<"l", "u", "p", " ", "b", "a", "r">>, <<"d", "o", "c", " ", "c", "a">>, <<"d", "o", "c", " ", "a">>, <<"d", "o", "c", " ", "z", "z">>}

\* the lines the user types at a (y/n) prompt
AllowLines == {<<"y">>, <<"Y", "E", "S">>, <<"n">>, <<>>}

\* the worlds a fetch of the command loops may find, in the directory cwd
ReplEnvs(crate_name) ==
    [cwd : {cwd},
     file : Files,
     first : {Err("transport"),
              Ok([url |-> DocsRs \o crate_name \o <<"/", "l", "a", "t", "e", "s", "t", "/">>
                              \o crate_name \o <<"/">>])},
     second : {Err("transport")}
              \cup {Ok([status |-> st, body |-> b]) :
                      st \in {200, 404}, b \in {Err("body")} \cup {Ok(d) : d \in FetchDocs}}]

Top == stack[Len(stack)]
SetTop(frame) == [stack EXCEPT ![Len(stack)] = frame]

\* the history with one more event, the oldest dropped
Log(event) ==
    IF Len(history) < HistoryLen THEN Append(history, event)
    ELSE Append(Tail(history), event)

\* a frame once the call it made has returned: process_crate_fetch_cmds is
\* at the end of a match arm inside its loop and fetches again; main and
\* process_opened_crate_cmds go back to their prompt
Resumed(frame) ==
    IF frame.fn = "fetch" THEN [frame EXCEPT !.pc = "fetch"]
    ELSE [frame EXCEPT !.pc = "prompt"]

\* the stack after the running frame returned (break out of the loop)
Returned ==
    LET rest == SubSeq(stack, 1, Len(stack) - 1)
    IN  [rest EXCEPT ![Len(rest)] = Resumed(rest[Len(rest)])]

\* the stack after the running frame called f
Called(f) == Append(SetTop([Top EXCEPT !.pc = "call"]), f)

\* the process has ended: process::exit or a panic
Exited == <<>>

Init ==
    /\ stack = <<MainFrame("prompt")>>
    /\ cwd \in Cwds
    /\ opened = None
    /\ searched = None
    /\ history = <<>>
    /\ SearchIdle /\ ExtractIdle /\ FetchIdle

\* fn process_cmd(cmd, editor), the effect on the stack
process_cmd(cmd) ==
    CASE cmd.tag = "Lookup" ->
            /\ Len(stack) < MaxDepth
            /\ stack' = Called(FetchFrame(FALSE, cmd.val, "fetch"))
      [] cmd.tag = "RefreshCache" ->
            stack' = SetTop([Top EXCEPT !.pc = "refresh"])
      [] OTHER -> stack' = stack

\* main: let cmd = wait_for_cmd(">>", &mut e); process_cmd(cmd, &mut e)
MainCmd ==
    /\ stack # Exited /\ Top.fn = "main" /\ Top.pc = "prompt"
    /\ \E line \in CmdLines : process_cmd(CmdFrom(line))
    /\ history' = Log("input")
    /\ UNCHANGED <<cwd, opened, searched>>
    /\ UNCHANGED <<searchVars, extractVars, fetchVars>>

\* process_crate_fetch_cmds: let page = DocPage::fetch(online, &name) and the
\* match on it
Fetch ==
    /\ stack # Exited /\ Top.fn = "fetch" /\ Top.pc = "fetch"
    /\ \E page \in {DocPageFetch(Top.online, Top.name, env) : env \in ReplEnvs(Top.name)} :
             (   CASE page = Panic ->
                        /\ stack' = Exited
                        /\ history' = Log("panic")
                        /\ UNCHANGED opened
                   [] page.tag = "Err" /\ page.err = "DoesNotExist" /\ ~Top.online ->
                        /\ stack' = SetTop([Top EXCEPT !.pc = "permission"])
                        /\ history' = Log("fetch_failed")
                        /\ UNCHANGED opened
                   [] page.tag = "Err" /\ page.err = "DoesNotExist" /\ Top.online ->
                        /\ stack' = Returned
                        /\ history' = Log("fetch_failed")
                        /\ UNCHANGED opened
                   [] page.tag = "Err" /\ page.err = "LoadFailure" /\ Top.online ->
                        /\ stack' = Returned
                        /\ history' = Log("fetch_failed")
                        /\ UNCHANGED opened
                   [] page.tag = "Err" /\ page.err # "DoesNotExist"
                        /\ ~(page.err = "LoadFailure" /\ Top.online) ->
                        \* Err(e) => println!("{:?}", e): no break
                        /\ stack' = stack
                        /\ history' = Log("fetch_failed")
                        /\ UNCHANGED opened
                   [] page.tag = "Ok" ->
                        /\ Len(stack) < MaxDepth
                        /\ stack' = Called(OpenedFrame(DocStateFrom(page.val), Top.name, "prompt"))
                        /\ history' = Log("fetch_ok")
                        /\ opened' = Some(page.val) )
    /\ UNCHANGED <<cwd, searched>>
    /\ UNCHANGED <<searchVars, extractVars, fetchVars>>

\* process_crate_fetch_cmds: wait_for_permission("Docs are missing ...")
Permission ==
    /\ stack # Exited /\ Top.fn = "fetch" /\ Top.pc = "permission"
    /\ \E line \in AllowLines :
          IF AllowFrom(line) = "Yes"
          THEN /\ Len(stack) < MaxDepth
               /\ stack' = Called(FetchFrame(TRUE, Top.name, "fetch"))
          ELSE stack' = Returned
    /\ history' = Log("input")
    /\ UNCHANGED <<cwd, opened, searched>>
    /\ UNCHANGED <<searchVars, extractVars, fetchVars>>

\* process_opened_crate_cmds: let cmd = Cmd::from(wait_for_cmd(..)) and the
\* match on it
OpenedCmd ==
    /\ stack # Exited /\ Top.fn = "opened" /\ Top.pc = "prompt"
    /\ \E line \in CmdLines :
          LET cmd == CmdFrom(line)
          IN  CASE cmd.tag = "Lookup" ->
                     /\ process_cmd(cmd)
                     /\ history' = Log("input")
                     /\ UNCHANGED searched
                [] cmd.tag = "RefreshCache" ->
                     /\ stack' = SetTop([Top EXCEPT !.pc = "refresh"])
                     /\ history' = Log("input")
                     /\ UNCHANGED searched
                [] cmd.tag = "Doc" ->
                     /\ searched' =
                           Some([index |-> Top.state.available_docs,
                                 target |-> cmd.val,
                                 result |-> search_doc_listings(Top.state.available_docs, cmd.val),
                                 opened |-> opened])
                     /\ history' = Log("search")
                     /\ UNCHANGED stack
                [] OTHER ->
                     /\ history' = Log("input")
                     /\ UNCHANGED <<stack, searched>>
    /\ UNCHANGED <<cwd, opened>>
    /\ UNCHANGED <<searchVars, extractVars, fetchVars>>

\* process_refresh_cmd: wait_for_permission("Refresh the doc cache? >>") and
\* Command::new("cargo").arg("doc").spawn().expect(..), which panics when cargo
\* cannot be started
Refresh ==
    /\ stack # Exited /\ Top.pc = "refresh"
    /\ \E line \in AllowLines, spawned \in BOOLEAN :
          IF AllowFrom(line) = "Yes" /\ ~spawned
          THEN stack' = Exited
          ELSE stack' = SetTop([Top EXCEPT !.pc = "prompt"])
    /\ history' = Log("input")
    /\ UNCHANGED <<cwd, opened, searched>>
    /\ UNCHANGED <<searchVars, extractVars, fetchVars>>

\* wait_for_input: Err(_) => std::process::exit(1)
ReadlineErr ==
    /\ stack # Exited /\ Top.pc \in {"prompt", "permission", "refresh"}
    /\ stack' = Exited
    /\ UNCHANGED <<cwd, opened, searched, history>>
    /\ UNCHANGED <<searchVars, extractVars, fetchVars>>

Next == MainCmd \/ Fetch \/ Permission \/ OpenedCmd \/ Refresh \/ ReadlineErr

Spec == Init /\ [][Next]_vars

---------------------------------------------------------------------------
\* Properties

Least(S) == CHOOSE i \in S : \A j \in S : i <= j

\* t is a trailing substring of s
IsTrailing(t, s) ==
    \E k \in 0..Len(s) :
        /\ Len(s) = k + Len(t)
        /\ \A j \in 1..Len(t) : s[k + j] = t[j]

\* the entries of a page in group order, then entry order
PageEntries(p) ==
    LET B == p.doc_blocks
        Pos == UNION {{<<g, k>> : k \in DOMAIN B[g].docs} : g \in DOMAIN B}
        Before(x) == {y \in Pos : y[1] < x[1] \/ (y[1] = x[1] /\ y[2] < x[2])}
    IN  [i \in 1..Cardinality(Pos) |->
            LET x == CHOOSE x \in Pos : Cardinality(Before(x)) = i - 1
            IN  B[x[1]].docs[x[2]]]

ExactAt(idx, target) == {i \in DOMAIN idx : idx[i].name = target}
TrailingAt(idx, target) == {i \in DOMAIN idx : IsTrailing(target, idx[i].name)}

\* C1 (search precedence): when some entry of the index, the entries of the
\* page in group order then entry order, has a name equal to the target, the
\* search returns the first such entry, whatever entries precede it.
C1_SearchPrecedence ==
    search_pc = "searched" =>
        LET idx == PageEntries(search_page)
            exact == ExactAt(idx, search_target)
        IN  exact # {} => search_result = Some(idx[Least(exact)])

\* an entry whose name only ends with the target precedes the entry returned,
\* whose name is the target
C1_Witness ==
    /\ search_pc = "searched"
    /\ LET idx == PageEntries(search_page)
       IN  \E i, j \in DOMAIN idx :
              /\ i < j
              /\ idx[i].name # search_target
              /\ IsTrailing(search_target, idx[i].name)
              /\ idx[j].name = search_target
              /\ search_result = Some(idx[j])

\* C2 (search fallback and miss): when no entry's name equals the target, the
\* search returns the first entry whose name ends with the target, and None
\* exactly when there is no such entry.
C2_SearchFallback ==
    search_pc = "searched" =>
        LET idx == PageEntries(search_page)
            trailing == TrailingAt(idx, search_target)
        IN  ExactAt(idx, search_target) = {} =>
               /\ trailing = {} <=> search_result = None
               /\ trailing # {} => search_result = Some(idx[Least(trailing)])

\* no name equals the target, the first entry does not end with it and the
\* second, which does, is returned
C2_Witness ==
    /\ search_pc = "searched"
    /\ LET idx == PageEntries(search_page)
           trailing == TrailingAt(idx, search_target)
       IN  /\ ExactAt(idx, search_target) = {}
           /\ trailing # {}
           /\ Least(trailing) > 1
           /\ search_result = Some(idx[Least(trailing)])

\* <cwd>/target/doc/<subject>/all.html
CachePath(dir, subject) ==
    dir \o <<"/", "t", "a", "r", "g", "e", "t", "/", "d", "o", "c", "/">> \o subject \o <<"/", "a", "l", "l", ".", "h", "t", "m", "l">>

\* C3 (local source classification): offline, fetch_html returns DoesNotExist
\* when the cache file is missing, LoadFailure when it is present and cannot
\* be read or decoded, and otherwise its contents with the path as base.
C3_LocalClassification ==
    (fetch_pc = "done" /\ ~fetch_online) =>
        CASE fetch_env.file.kind = "missing" ->
                fetch_result = Err("DoesNotExist")
          [] fetch_env.file.kind \in {"denied", "unreadable"} ->
                fetch_result = Err("LoadFailure")
          [] OTHER ->
                fetch_result = Ok(<<PageAll(fetch_env.file.content),
                                    CachePath(fetch_env.cwd, fetch_crate)>>)

\* what C4 says of an online fetch when a status in `pages` is taken as a page
NetworkClassification(pages) ==
    (fetch_pc = "done" /\ fetch_online) =>
        IF fetch_env.first.tag = "Err" THEN fetch_result = Err("LoadFailure")
        ELSE IF fetch_env.second.tag = "Err" THEN fetch_result = Err("LoadFailure")
        ELSE IF fetch_env.second.val.status \notin pages
             THEN fetch_result = Err("DoesNotExist")
        ELSE IF fetch_env.second.val.body.tag = "Err"
             THEN fetch_result = Err("LoadFailure")
        ELSE fetch_result = Ok(<<PageAll(fetch_env.second.val.body.val),
                                 fetch_env.first.val.url \o <<"a", "l", "l", ".", "h", "t", "m", "l">>>>)

\* C4 as stated (network source classification): LoadFailure when either
\* request fails in transport, DoesNotExist when the second response has a
\* non-2xx status, and the body with the resolved index address for a 2xx
\* status (LoadFailure if the body cannot be read).
C4_NetworkClassification_2xx == NetworkClassification(200..299)

\* C4 as amended: the second response is taken as the page only when its
\* status is 200 OK; every other status, 2xx or not, gives DoesNotExist.
C4_NetworkClassification_200 == NetworkClassification({200})

\* the second response has a 2xx status other than 200 and the fetch returned
\* DoesNotExist
C4_Witness ==
    /\ fetch_pc = "done" /\ fetch_online
    /\ fetch_env.first.tag = "Ok" /\ fetch_env.second.tag = "Ok"
    /\ fetch_env.second.val.status \in 200..299
    /\ fetch_env.second.val.status # 200
    /\ fetch_result = Err("DoesNotExist")

\* the result of gen_doc_listings on an index page, when it returned
ExtractOut == extract_result.val
ExtractReturned ==
    /\ extract_pc = "done"
    /\ extract_page.page_type = "All"
    /\ extract_result.tag = "Ok"

\* the place <<container, anchor>> of the anchor with the given text
SourceOf(text) ==
    CHOOSE x \in UNION {{<<i, j>> : j \in DOMAIN extract_page.uls[i].anchors} :
                           i \in DOMAIN extract_page.uls} :
        extract_page.uls[x[1]].anchors[x[2]].text = text

\* the groups of the output that hold an entry of container i
GroupsOf(i) ==
    {g \in DOMAIN ExtractOut :
        \E e \in DOMAIN ExtractOut[g].docs : SourceOf(ExtractOut[g].docs[e].name)[1] = i}

\* C5 (local url resolution): against a local path as base location, the url
\* of every entry is the base with only its trailing all.html replaced by the
\* href of the entry's anchor.
C5_LocalUrlResolution ==
    (ExtractReturned /\ Head(extract_base) = "/") =>
        \A g \in DOMAIN ExtractOut : \A e \in DOMAIN ExtractOut[g].docs :
            LET entry == ExtractOut[g].docs[e]
                src == SourceOf(entry.name)
                href == extract_page.uls[src[1]].anchors[src[2]].href
            IN  /\ href # None
                /\ entry.url =
                      SubSeq(extract_base, 1, Len(extract_base) - Len(<<"a", "l", "l", ".", "h", "t", "m", "l">>))
                         \o href.val

\* the first space-separated token of a class attribute
FirstToken(class) ==
    LET spaces == {i \in DOMAIN class : class[i] = " "}
    IN  IF spaces = {} THEN class ELSE SubSeq(class, 1, Least(spaces) - 1)

\* a token that marks a menu: it starts with "pure"
IsMenuMarker(token) ==
    Len(token) >= 4 /\ SubSeq(token, 1, 4) = <<"p", "u", "r", "e">>

KnownKinds ==
    {<<<<"m", "o", "d", "u", "l", "e", "s">>, "Module">>,
     <<<<"s", "t", "r", "u", "c", "t", "s">>, "Struct">>,
     <<<<"t", "y", "p", "e", "d", "e", "f", "s">>, "Type">>,
     <<<<"t", "r", "a", "i", "t", "s">>, "Trait">>,
     <<<<"e", "n", "u", "m", "s">>, "Enum">>,
     <<<<"f", "u", "n", "c", "t", "i", "o", "n", "s">>, "Function">>,
     <<<<"c", "o", "n", "s", "t", "a", "n", "t", "s">>, "Constant">>}

KindOfToken(token) ==
    IF \E p \in KnownKinds : p[1] = token
    THEN (CHOOSE p \in KnownKinds : p[1] = token)[2]
    ELSE "Other"

\* C6 (classification totality): a container without a class, or whose first
\* class token is a menu marker, contributes no group; any other container
\* contributes at most one group, of the kind its first token names (Other for
\* every token that is not one of the seven known names).
C6_ClassificationTotality ==
    ExtractReturned =>
        \A i \in DOMAIN extract_page.uls :
            LET c == extract_page.uls[i]
            IN  IF c.class = None \/ IsMenuMarker(FirstToken(c.class.val))
                THEN GroupsOf(i) = {}
                ELSE /\ Cardinality(GroupsOf(i)) <= 1
                     /\ \A g \in GroupsOf(i) :
                           ExtractOut[g].doc_type = KindOfToken(FirstToken(c.class.val))

\* a typedefs container gave a Type group
C6_Witness ==
    /\ ExtractReturned
    /\ \E i \in DOMAIN extract_page.uls :
          /\ extract_page.uls[i].class = Some(<<"t", "y", "p", "e", "d", "e", "f", "s">>)
          /\ \E g \in GroupsOf(i) : ExtractOut[g].doc_type = "Type"

\* the anchors of container i that the code keeps: they have an href, and the
\* base location is not one whose resolution drops the reference
KeptAnchors(i) ==
    {j \in DOMAIN extract_page.uls[i].anchors :
        /\ extract_page.uls[i].anchors[j].href # None
        /\ ~(UrlParse(extract_base).tag = "Err"
             /\ UrlParse(extract_base).err # "RelativeUrlWithoutBase")}

\* C7 (group emptiness): no group of the output is empty, and a container
\* whose anchors are all skipped gives no group.
C7_GroupEmptiness ==
    ExtractReturned =>
        /\ \A g \in DOMAIN ExtractOut : Len(ExtractOut[g].docs) > 0
        /\ Len(ExtractOut) <=
              Cardinality({i \in DOMAIN extract_page.uls : KeptAnchors(i) # {}})

\* a container with a known class and anchors, all of them skipped, is
\* followed by a container that gave the only group
C7_Witness ==
    /\ ExtractReturned
    /\ Len(extract_page.uls) = 2
    /\ extract_page.uls[1].class = Some(<<"s", "t", "r", "u", "c", "t", "s">>)
    /\ extract_page.uls[1].anchors # <<>>
    /\ KeptAnchors(1) = {}
    /\ Len(ExtractOut) = 1

\* C8 (order preservation): the entries of a group come from one container,
\* in the order of its anchors, and the groups are in the order of their
\* containers.
C8_OrderPreservation ==
    ExtractReturned =>
        /\ \A g \in DOMAIN ExtractOut : \A e1, e2 \in DOMAIN ExtractOut[g].docs :
              e1 < e2 =>
                 LET s1 == SourceOf(ExtractOut[g].docs[e1].name)
                     s2 == SourceOf(ExtractOut[g].docs[e2].name)
                 IN  s1[1] = s2[1] /\ s1[2] < s2[2]
        /\ \A g1, g2 \in DOMAIN ExtractOut :
              (g1 < g2 /\ ExtractOut[g1].docs # <<>> /\ ExtractOut[g2].docs # <<>>) =>
                 SourceOf(ExtractOut[g1].docs[1].name)[1]
                    < SourceOf(ExtractOut[g2].docs[1].name)[1]

\* two groups, the first without its container's first anchor, which was
\* skipped, the second with two entries
C8_Witness ==
    /\ ExtractReturned
    /\ Len(ExtractOut) = 2
    /\ Len(extract_page.uls[1].anchors) = 2
    /\ extract_page.uls[1].anchors[1].href = None
    /\ Len(ExtractOut[1].docs) = 1
    /\ Len(ExtractOut[2].docs) = 2

\* C9 (no automatic retry): after a fetch that failed, no fetch is made before
\* an input is read.
C9_NoAutomaticRetry ==
    \A i \in 1..(Len(history) - 1) :
        history[i] = "fetch_failed" =>
            history[i + 1] \notin {"fetch_ok", "fetch_failed", "panic"}

\* C10 (session/index consistency): a doc command is answered only once a
\* page was opened, from the entries of the page opened last; the innermost
\* session on the stack, the one every doc command goes to, holds that page
\* and its entries, whatever lookups failed since.
C10_SessionIndexConsistency ==
    /\ opened = None => searched = None
    /\ searched # None =>
          /\ searched.val.opened # None
          /\ searched.val.index = PageEntries(searched.val.opened.val)
    /\ \A i \in DOMAIN stack :
          (stack[i].fn = "opened" /\ \A j \in DOMAIN stack : j > i => stack[j].fn # "opened") =>
             /\ opened # None
             /\ stack[i].state.page = opened.val
             /\ stack[i].state.available_docs = PageEntries(opened.val)

\* inside a session a lookup failed, the user declined the live fetch, and the
\* next doc command was answered from the page of the session
C10_Witness ==
    /\ history = <<"fetch_failed", "input", "search">>
    /\ stack # <<>>
    /\ stack[Len(stack)].fn = "opened"
    /\ searched # None
    /\ searched.val.result # None
    /\ Len(searched.val.opened.val.doc_blocks) = 2

=============================================================================
